---- MODULE Spec2Model ----
(***************************************************************************)
(* Chunked audio processing of lecture-to-text: the streaming splitter     *)
(* (utils/streaming_audio_processor.py), the session / chunk store on the  *)
(* object store (utils/cloud_audio_manager.py) and the orchestrator        *)
(* (core/services/audio_service.py, process_audio_with_cloud_storage).     *)
(*                                                                         *)
(* Times are counted in ticks of 1/TicksPerSecond second, so that source   *)
(* durations with a fractional part exist; chunk_duration is a whole       *)
(* number of seconds, as in the code (an int).                             *)
(* One session is modelled; an object-store key of a chunk is a function   *)
(* of the chunk index alone, so a key is represented by that index.        *)
(***************************************************************************)
EXTENDS Integers, Sequences, FiniteSets, TLC

\* ---------------------------------------------------------------- bounds
TicksPerSecond == 2
MaxChunks == 3
MaxClientOps == 1
MaxAdminOps == 2
MaxRequests == 2
MaxSegmentTicks == 14
MaxSegmentSeconds == 3

\* ---------------------------------------------------- program constants
MinChunkSeconds == 300
MaxChunkSeconds == 1800

VARIABLES
    source_duration,   \* metadata['duration'] of the input file, in ticks
    max_memory_mb,     \* max_memory_mb argument of the orchestrator
    pc,                \* position of process_audio_with_cloud_storage
    chunk_duration,    \* processor.chunk_duration (seconds)
    num_chunks,        \* num_chunks of split_audio_file
    chunk_idx,         \* loop variable of split_audio_file
    temp_files,        \* processor.temp_files
    disk,              \* local chunk files that exist
    cur,               \* chunk_info last yielded by the splitter
    chunk_results,     \* chunk_results of the orchestrator
    session_info,      \* session_info read by the orchestrator's store call
    outcome,           \* "running", "returned" or "raised"
    error,             \* the exception the orchestrator caught / raised
    doc,               \* the session document session.json in the bucket
    blobs,             \* chunk artifacts in the bucket (by chunk index)
    cpc,               \* position of the second writer's store call
    cargs,             \* arguments of the second writer's call
    csession_info,     \* session_info read by the second writer's call
    cops,              \* number of calls the second writer has started
    yielded,           \* history: chunk_infos the splitter has yielded
    extract_failed,    \* history: indices whose _extract_chunk returned False
    put_acked,         \* history: indices whose artifact put was acknowledged
    put_failed,        \* history: indices whose artifact put raised
    ack_appends,       \* history: indices whose record append was acknowledged
    ack_status,        \* history: status of the last acknowledged status write
    pulls,             \* history: number of elements the consumer has asked for
    extract_calls,     \* history: indices _extract_chunk was called for, in order
    mpc,               \* position of merge_chunks
    m_chunks,          \* chunks of merge_chunks (the sorted list)
    temp_chunk_paths,  \* temp_chunk_paths of merge_chunks: the files downloaded
    m_disk,            \* downloaded chunk files that exist
    merge_result,      \* what merge_chunks returned or raised
    apc,               \* position of the maintenance caller's store call
    aargs,             \* arguments of the maintenance caller's call
    a_info,            \* session_info read by the maintenance caller's call
    a_listing,         \* delete_session: objects of list_blobs not yet visited
    aops,              \* number of calls the maintenance caller has started
    a_last,            \* the call the maintenance caller made last, and its end
    deletes_ok,        \* history: number of delete_session calls that returned
    listed,            \* what list_session_chunks returned last
    req_pc,            \* /process-audio: position of each request's handler
    req_resp,          \* /process-audio: HTTP status each request was answered
    processing_status, \* the global processing_status dict
    status_owner,      \* history: the request that assigned the global last
    seg_pc,            \* position of create_audio_segments
    seg_total,         \* create_audio_segments: duration, in ticks
    seg_len,           \* create_audio_segments: segment_duration (seconds)
    seg_start,         \* create_audio_segments: start_time, the loop variable (seconds)
    segments           \* create_audio_segments: segments

inputVars == <<source_duration, max_memory_mb>>
splitVars == <<chunk_duration, num_chunks, chunk_idx, temp_files, disk, cur>>
orchVars == <<pc, chunk_results, session_info, outcome, error>>
storeVars == <<doc, blobs>>
clientVars == <<cpc, cargs, csession_info, cops>>
histVars == <<yielded, extract_failed, put_acked, put_failed, ack_appends, ack_status>>
pullVars == <<pulls, extract_calls>>
mergeVars == <<mpc, m_chunks, temp_chunk_paths, m_disk, merge_result>>
apiVars == <<req_pc, req_resp, processing_status, status_owner>>
segVars == <<seg_pc, seg_total, seg_len, seg_start, segments>>
adminVars == <<apc, aargs, a_info, a_listing, aops, a_last, deletes_ok, listed>>
vars == <<inputVars, splitVars, orchVars, storeVars, clientVars, histVars, pullVars,
          mergeVars, adminVars, apiVars, segVars>>

\* ---------------------------------------------------------------- helpers
Min(a, b) == IF a < b THEN a ELSE b
Max(a, b) == IF a > b THEN a ELSE b
Range(s) == {s[i] : i \in 1..Len(s)}
Ticks(seconds) == seconds * TicksPerSecond

MinOfSet(S) == CHOOSE x \in S : \A y \in S : x <= y

\* ------------------------------------------------------------- the planner
\* get_optimal_chunk_duration: int((available_memory_mb * 0.8 / 1.8) * 60),
\* limited to [300, 1800], then int(file_duration) for a shorter file.
\* (mb * 0.8 / 1.8) * 60 = mb * 80 / 3; the memory sizes used below are ones
\* where the floating-point evaluation truncates to the same integer.
get_optimal_chunk_duration(file_duration, available_memory_mb) ==
    LET optimal == (available_memory_mb * 80) \div 3
        limited == Max(MinChunkSeconds, Min(optimal, MaxChunkSeconds))
    IN  IF file_duration < Ticks(limited)
        THEN file_duration \div TicksPerSecond
        ELSE limited

\* ------------------------------------------------------------ the splitter
\* num_chunks = int((total_duration + chunk_duration - 1) // chunk_duration)
NumChunks(total_duration, c) ==
    (total_duration + Ticks(c - 1)) \div Ticks(c)

StartTime(idx, c) == Ticks(idx * c)
EndTime(idx, c, total_duration) == Min(Ticks((idx + 1) * c), total_duration)

\* the dictionary yielded for chunk idx (its times; the key is the index)
ChunkInfo(idx, c, total_duration) ==
    [chunk_index |-> idx,
     start_time |-> StartTime(idx, c),
     end_time |-> EndTime(idx, c, total_duration),
     duration |-> EndTime(idx, c, total_duration) - StartTime(idx, c)]

NoChunk == [chunk_index |-> -1, start_time |-> 0, end_time |-> 0, duration |-> 0]

\* --------------------------------------------------------- the chunk store
GcsPath(chunk_index) == chunk_index

\* chunk_info built by upload_chunk
ChunkRecord(chunk_index, start_time, end_time) ==
    [chunk_index |-> chunk_index,
     gcs_path |-> GcsPath(chunk_index),
     start_time |-> start_time,
     end_time |-> end_time,
     duration |-> end_time - start_time]

NoSession ==
    [exists |-> FALSE, status |-> "none", chunks |-> <<>>,
     total_chunks |-> -1, error |-> "none"]

\* session_info written by create_audio_session
NewSession ==
    [exists |-> TRUE, status |-> "processing", chunks |-> <<>>,
     total_chunks |-> -1, error |-> "none"]

\* _update_session_chunk: session_info['chunks'].append(chunk_info)
AppendChunk(info, chunk_info) ==
    [info EXCEPT !.chunks = Append(@, chunk_info)]

\* update_session_status: session_info['status'] = status, then
\* session_info.update(additional_info)
WithStatus(info, status, total, err) ==
    [info EXCEPT !.status = status,
                 !.total_chunks = IF total >= 0 THEN total ELSE @,
                 !.error = IF err # "none" THEN err ELSE @]

\* upload_chunk going on to the session update although the put raised
AfterPutIgnoringFailure(ok) == "update_chunk_read"

\* where upload_chunk continues after blob.upload_from_filename
AfterPut(ok) == IF ok THEN "update_chunk_read" ELSE "raise"

\* ------------------------------------------------------------------ merge
\* chunks.sort(key=lambda x: x['chunk_index']): a stable sort
RECURSIVE InsertByIndex(_, _)
InsertByIndex(sorted, rec) ==
    IF sorted = <<>> THEN <<rec>>
    ELSE IF rec.chunk_index < Head(sorted).chunk_index
         THEN <<rec>> \o sorted
         ELSE <<Head(sorted)>> \o InsertByIndex(Tail(sorted), rec)

RECURSIVE SortByIndex(_)
SortByIndex(chunks) ==
    IF chunks = <<>> THEN <<>>
    ELSE InsertByIndex(SortByIndex(SubSeq(chunks, 1, Len(chunks) - 1)),
                       chunks[Len(chunks)])

RECURSIVE SumDownloaded(_)
SumDownloaded(paths) ==
    IF paths = <<>> THEN 0
    ELSE Head(paths).duration + SumDownloaded(Tail(paths))

NoResult == [status |-> "none", error |-> "none", total_chunks |-> 0, duration |-> 0]
Raised(e) == [status |-> "raised", error |-> e, total_chunks |-> 0, duration |-> 0]

\* result of merge_chunks: total_chunks is len(chunks), duration the one of
\* the concatenation of the downloaded files
MergeResult(chunks, paths) ==
    [status |-> "ok", error |-> "none", total_chunks |-> Len(chunks),
     duration |-> SumDownloaded(paths)]

\* ------------------------------------------------------ maintenance calls
\* additional_info of update_session_status: a dict, given by the keys it has
\* and the values of those keys
ExtraInfos ==
    {[keys |-> K, chunks |-> <<>>, total_chunks |-> 0] :
        K \in SUBSET {"chunks", "total_chunks"}}

\* session_info['status'] = status; if additional_info:
\* session_info.update(additional_info)
WithStatusAndExtra(info, status, extra) ==
    [info EXCEPT !.status = status,
                 !.chunks = IF "chunks" \in extra.keys THEN extra.chunks ELSE @,
                 !.total_chunks = IF "total_chunks" \in extra.keys
                                  THEN extra.total_chunks ELSE @]

\* the name of session.json among the objects of a session, whose chunk
\* objects are named by their index: list_blobs gives chunks/... before it
SessionJson == 9999

\* delete_session forgetting the session document
ListBlobsChunksOnly(d, b) == b

\* bucket.list_blobs(prefix = the session's prefix)
ListBlobs(d, b) == b \cup (IF d.exists THEN {SessionJson} ELSE {})

NoAdminArgs == [status |-> "none", extra |-> [keys |-> {}, chunks |-> <<>>, total_chunks |-> 0]]
NoCall == [op |-> "none", status |-> "none"]
NotListed == [status |-> "none", chunks |-> <<>>]

\* ------------------------------------------------------- /process-audio
Requests == 1..MaxRequests

\* processing_status as the module defines it
IdleStatus == [is_processing |-> FALSE, progress |-> 0, error |-> "none"]

\* the dict process_audio assigns to the global once past the check
FreshStatus == [is_processing |-> TRUE, progress |-> 0, error |-> "none"]

\* a rejection that records the error and leaves is_processing as it is
RejectedKeepingFlag(ps, err) == [ps EXCEPT !.error = err]

\* the 401 / 400 / 413 paths: is_processing = False, error = the message
Rejected(ps, err) == [ps EXCEPT !.is_processing = FALSE, !.error = err]

\* the except clause: is_processing = False, error = str(e), progress = 0
Failed(ps, err) == [ps EXCEPT !.is_processing = FALSE, !.error = err, !.progress = 0]

\* the end of a successful request: is_processing = False, progress = 0
Finished(ps) == [ps EXCEPT !.is_processing = FALSE, !.progress = 0]

\* ------------------------------------------------------------------ inputs
TailTicks == {0, 1, TicksPerSecond, TicksPerSecond + 1, Ticks(150)}
SourceDurations ==
    {Ticks(k * MinChunkSeconds) + r : k \in 0..(MaxChunks - 1), r \in TailTicks} \ {0}
MemoryChoices == {8, 12, 1024}
Statuses == {"processing", "completed", "failed"}

Init ==
    /\ source_duration \in SourceDurations
    /\ max_memory_mb \in MemoryChoices
    /\ pc = "start"
    /\ chunk_duration = MinChunkSeconds
    /\ num_chunks = 0
    /\ chunk_idx = 0
    /\ temp_files = <<>>
    /\ disk = {}
    /\ cur = NoChunk
    /\ chunk_results = <<>>
    /\ session_info = NoSession
    /\ outcome = "running"
    /\ error = "none"
    /\ doc = NoSession
    /\ blobs = {}
    /\ cpc = "idle"
    /\ cargs = [status |-> "none", chunk_index |-> 0 - 1]
    /\ csession_info = NoSession
    /\ cops = 0
    /\ yielded = <<>>
    /\ extract_failed = {}
    /\ put_acked = {}
    /\ put_failed = {}
    /\ ack_appends = {}
    /\ ack_status = "none"
    /\ pulls = 0
    /\ extract_calls = <<>>
    /\ mpc = "idle"
    /\ m_chunks = <<>>
    /\ temp_chunk_paths = <<>>
    /\ m_disk = {}
    /\ merge_result = NoResult
    /\ apc = "idle"
    /\ aargs = NoAdminArgs
    /\ a_info = NoSession
    /\ a_listing = {}
    /\ aops = 0
    /\ a_last = NoCall
    /\ deletes_ok = 0
    /\ listed = NotListed
    /\ req_pc = [r \in Requests |-> "new"]
    /\ req_resp = [r \in Requests |-> 0]
    /\ processing_status = IdleStatus
    /\ status_owner = 0
    /\ seg_pc = "idle"
    /\ seg_total = 0
    /\ seg_len = 0
    /\ seg_start = 0
    /\ segments = <<>>


\* ------------------------------------------------------------ orchestrator
\* a cleanup that forgets the files without removing them
CleanupListOnly(files) ==
    /\ disk' = disk
    /\ temp_files' = <<>>

\* StreamingAudioProcessor.cleanup (run by __exit__ of the with block)
Cleanup(files) ==
    /\ disk' = disk \ Range(files)
    /\ temp_files' = <<>>

\* an exception leaves the with block (cleanup) and reaches the except clause
RaiseInWith(e, files) ==
    /\ Cleanup(files)
    /\ pc' = "failed_read"
    /\ error' = e

\* validate_audio_file, get_audio_metadata, create_audio_session and
\* create_streaming_processor; a failure here is raised with no session
ProcessAudioStart ==
    /\ pc = "start"
    /\ \E valid \in BOOLEAN, stored \in BOOLEAN :
         IF valid /\ stored
         THEN /\ doc' = NewSession
              /\ ack_status' = "processing"
              /\ chunk_duration' =
                   get_optimal_chunk_duration(source_duration, max_memory_mb)
              /\ pc' = "split_begin"
              /\ UNCHANGED <<outcome, error>>
         ELSE /\ pc' = "done"
              /\ outcome' = "raised"
              /\ error' = IF valid THEN "StorageError" ELSE "ValueError"
              /\ UNCHANGED <<doc, ack_status, chunk_duration>>
    /\ UNCHANGED <<inputVars, mergeVars, adminVars, apiVars, segVars, pullVars, num_chunks, chunk_idx, temp_files, disk, cur,
                   chunk_results, session_info, blobs, clientVars,
                   yielded, extract_failed, put_acked, put_failed, ack_appends>>

\* split_audio_file up to the loop: the chunk count (a floor division by
\* chunk_duration, which raises ZeroDivisionError when it is 0)
SplitBegin ==
    /\ pc = "split_begin"
    /\ IF chunk_duration = 0
       THEN /\ RaiseInWith("ZeroDivisionError", temp_files)
            /\ UNCHANGED <<num_chunks, chunk_idx>>
       ELSE /\ num_chunks' = NumChunks(source_duration, chunk_duration)
            /\ chunk_idx' = 0
            /\ pc' = "split_next"
            /\ UNCHANGED <<temp_files, disk, error>>
    /\ pulls' = pulls + 1
    /\ UNCHANGED extract_calls
    /\ UNCHANGED <<inputVars, mergeVars, adminVars, apiVars, segVars, chunk_duration, cur, chunk_results, session_info,
                   outcome, storeVars, clientVars, histVars>>

\* the splitter extracting chunk after chunk without yielding any
AfterExtractEager(success) == "continue"

\* what the loop of split_audio_file does with the result of _extract_chunk:
\* it yields the chunk, or logs the failure and continues with the next index
AfterExtract(success) == IF success THEN "yield" ELSE "continue"

\* one iteration of the loop of split_audio_file: the temp file is tracked,
\* _extract_chunk runs (a failed run may leave a partial file); on success
\* the chunk is yielded, on failure the loop goes on to the next index
SplitExtract ==
    /\ pc = "split_next"
    /\ chunk_idx < num_chunks
    /\ \E success \in BOOLEAN, probed \in BOOLEAN, leftover \in BOOLEAN :
         LET files == Append(temp_files, chunk_idx)
             info == ChunkInfo(chunk_idx, chunk_duration, source_duration)
         IN  IF AfterExtract(success) = "continue"
             THEN /\ temp_files' = files
                  /\ extract_failed' =
                       IF success THEN extract_failed
                       ELSE extract_failed \cup {chunk_idx}
                  /\ disk' = IF success \/ leftover THEN disk \cup {chunk_idx} ELSE disk
                  /\ chunk_idx' = chunk_idx + 1
                  /\ UNCHANGED <<pc, cur, yielded, error>>
             ELSE IF probed
             THEN /\ temp_files' = files
                  /\ disk' = disk \cup {chunk_idx}
                  /\ cur' = info
                  /\ yielded' = Append(yielded, info)
                  /\ pc' = "process"
                  /\ UNCHANGED <<chunk_idx, extract_failed, error>>
             ELSE /\ RaiseInWith("MetadataError", files)
                  /\ UNCHANGED <<chunk_idx, cur, yielded, extract_failed>>
    /\ extract_calls' = Append(extract_calls, chunk_idx)
    /\ UNCHANGED pulls
    /\ UNCHANGED <<inputVars, mergeVars, adminVars, apiVars, segVars, chunk_duration, num_chunks, chunk_results,
                   session_info, outcome, storeVars, clientVars,
                   put_acked, put_failed, ack_appends, ack_status>>

\* the loop of split_audio_file ends: the with block is left normally
SplitExhausted ==
    /\ pc = "split_next"
    /\ chunk_idx >= num_chunks
    /\ Cleanup(temp_files)
    /\ pc' = "completed_read"
    /\ UNCHANGED <<inputVars, mergeVars, adminVars, apiVars, segVars, pullVars, chunk_duration, num_chunks, chunk_idx, cur,
                   chunk_results, session_info, outcome, error, storeVars,
                   clientVars, histVars, apiVars, segVars>>

\* audio_processor.extract_audio / preprocess_audio on the yielded chunk
ProcessChunk ==
    /\ pc = "process"
    /\ \E ok \in BOOLEAN :
         IF ok
         THEN /\ pc' = "upload_put"
              /\ UNCHANGED <<temp_files, disk, error>>
         ELSE RaiseInWith("ProcessingError", temp_files)
    /\ UNCHANGED <<inputVars, mergeVars, adminVars, apiVars, segVars, pullVars, chunk_duration, num_chunks, chunk_idx, cur,
                   chunk_results, session_info, outcome, storeVars,
                   clientVars, histVars, apiVars, segVars>>

\* upload_chunk up to the artifact put: validate_audio_file, then
\* blob.upload_from_filename
UploadChunkPut ==
    /\ pc = "upload_put"
    /\ \E valid \in BOOLEAN, ok \in BOOLEAN :
         IF ~valid
         THEN /\ RaiseInWith("ValueError", temp_files)
              /\ UNCHANGED <<blobs, put_acked, put_failed>>
         ELSE /\ blobs' = IF ok THEN blobs \cup {GcsPath(cur.chunk_index)} ELSE blobs
              /\ put_acked' = IF ok THEN put_acked \cup {cur.chunk_index} ELSE put_acked
              /\ put_failed' = IF ok THEN put_failed ELSE put_failed \cup {cur.chunk_index}
              /\ IF AfterPut(ok) = "raise"
                 THEN RaiseInWith("StorageError", temp_files)
                 ELSE /\ pc' = AfterPut(ok)
                      /\ UNCHANGED <<temp_files, disk, error>>
    /\ UNCHANGED <<inputVars, mergeVars, adminVars, apiVars, segVars, pullVars, chunk_duration, num_chunks, chunk_idx, cur,
                   chunk_results, session_info, outcome, doc, clientVars,
                   yielded, extract_failed, ack_appends, ack_status>>

\* _update_session_chunk: get_session_info
UpdateSessionChunkRead ==
    /\ pc = "update_chunk_read"
    /\ \E ok \in BOOLEAN :
         IF doc.exists /\ ok
         THEN /\ session_info' = doc
              /\ pc' = "update_chunk_write"
              /\ UNCHANGED <<temp_files, disk, error>>
         ELSE /\ RaiseInWith(IF doc.exists THEN "StorageError" ELSE "NotFound",
                             temp_files)
              /\ UNCHANGED session_info
    /\ UNCHANGED <<inputVars, mergeVars, adminVars, apiVars, segVars, pullVars, chunk_duration, num_chunks, chunk_idx, cur,
                   chunk_results, outcome, storeVars, clientVars, histVars>>

\* _update_session_chunk: append and write the document back; upload_chunk
\* returns, the orchestrator records the result and asks for the next chunk
UpdateSessionChunkWrite ==
    /\ pc = "update_chunk_write"
    /\ \E ok \in BOOLEAN :
         LET chunk_info == ChunkRecord(cur.chunk_index, cur.start_time, cur.end_time)
         IN  IF ok
             THEN /\ doc' = AppendChunk(session_info, chunk_info)
                  /\ ack_appends' = ack_appends \cup {cur.chunk_index}
                  /\ chunk_results' = Append(chunk_results, chunk_info)
                  /\ chunk_idx' = chunk_idx + 1
                  /\ pc' = "split_next"
                  /\ pulls' = pulls + 1
                  /\ UNCHANGED <<temp_files, disk, error>>
             ELSE /\ RaiseInWith("StorageError", temp_files)
                  /\ UNCHANGED <<doc, ack_appends, chunk_results, chunk_idx, pulls>>
    /\ UNCHANGED extract_calls
    /\ UNCHANGED <<inputVars, mergeVars, adminVars, apiVars, segVars, chunk_duration, num_chunks, cur, session_info,
                   outcome, blobs, clientVars, yielded, extract_failed,
                   put_acked, put_failed, ack_status>>

\* update_session_status(status='completed'): get_session_info
CompletedRead ==
    /\ pc = "completed_read"
    /\ \E ok \in BOOLEAN :
         IF doc.exists /\ ok
         THEN /\ session_info' = doc
              /\ pc' = "completed_write"
              /\ UNCHANGED error
         ELSE /\ pc' = "failed_read"
              /\ error' = IF doc.exists THEN "StorageError" ELSE "NotFound"
              /\ UNCHANGED session_info
    /\ UNCHANGED <<inputVars, mergeVars, adminVars, apiVars, segVars, pullVars, splitVars, chunk_results, outcome, storeVars,
                   clientVars, histVars, apiVars, segVars>>

\* update_session_status(status='completed'): the write; then the result
\* is returned
CompletedWrite ==
    /\ pc = "completed_write"
    /\ \E ok \in BOOLEAN :
         IF ok
         THEN /\ doc' = WithStatus(session_info, "completed", Len(chunk_results), "none")
              /\ ack_status' = "completed"
              /\ pc' = "done"
              /\ outcome' = "returned"
              /\ UNCHANGED error
         ELSE /\ pc' = "failed_read"
              /\ error' = "StorageError"
              /\ UNCHANGED <<doc, ack_status, outcome>>
    /\ UNCHANGED <<inputVars, mergeVars, adminVars, apiVars, segVars, pullVars, splitVars, chunk_results,
                   session_info, blobs, clientVars, yielded, extract_failed,
                   put_acked, put_failed, ack_appends>>

\* the except clause: update_session_status(status='failed'), whose own
\* failure is logged and dropped; then the exception is raised again
FailedRead ==
    /\ pc = "failed_read"
    /\ \E ok \in BOOLEAN :
         IF doc.exists /\ ok
         THEN /\ session_info' = doc
              /\ pc' = "failed_write"
              /\ UNCHANGED outcome
         ELSE /\ pc' = "done"
              /\ outcome' = "raised"
              /\ UNCHANGED session_info
    /\ UNCHANGED <<inputVars, mergeVars, adminVars, apiVars, segVars, pullVars, splitVars, chunk_results, error, storeVars,
                   clientVars, histVars, apiVars, segVars>>

FailedWrite ==
    /\ pc = "failed_write"
    /\ \E ok \in BOOLEAN :
         /\ doc' = IF ok THEN WithStatus(session_info, "failed", -1, error) ELSE doc
         /\ ack_status' = IF ok THEN "failed" ELSE ack_status
    /\ pc' = "done"
    /\ outcome' = "raised"
    /\ UNCHANGED <<inputVars, mergeVars, adminVars, apiVars, segVars, pullVars, splitVars, chunk_results, session_info, error,
                   blobs, clientVars, yielded, extract_failed, put_acked,
                   put_failed, ack_appends>>

OrchestratorNext ==
    \/ ProcessAudioStart
    \/ SplitBegin
    \/ SplitExtract
    \/ SplitExhausted
    \/ ProcessChunk
    \/ UploadChunkPut
    \/ UpdateSessionChunkRead
    \/ UpdateSessionChunkWrite
    \/ CompletedRead
    \/ CompletedWrite
    \/ FailedRead
    \/ FailedWrite

\* the single-writer system: one orchestrator owns the session
SpecSingleWriter == Init /\ [][OrchestratorNext]_vars


\* ----------------------------------------------------------- second writer
\* Another caller of the store's public methods on the same session
\* (update_session_status, upload_chunk), interleaved with the orchestrator
\* at the granularity of the object-store requests each method makes.
NoArgs == [status |-> "none", chunk_index |-> -1]

ClientCallUpdateStatus ==
    /\ cpc = "idle"
    /\ cops < MaxClientOps
    /\ ack_status # "none"
    /\ \E st \in Statuses :
         cargs' = [status |-> st, chunk_index |-> -1]
    /\ cpc' = "status_read"
    /\ cops' = cops + 1
    /\ UNCHANGED <<inputVars, mergeVars, adminVars, apiVars, segVars, pullVars, splitVars, orchVars, storeVars, csession_info, histVars>>

\* update_session_status: get_session_info
ClientStatusRead ==
    /\ cpc = "status_read"
    /\ \E ok \in BOOLEAN :
         IF doc.exists /\ ok
         THEN /\ csession_info' = doc
              /\ cpc' = "status_write"
              /\ UNCHANGED cargs
         ELSE /\ cpc' = "idle"
              /\ cargs' = NoArgs
              /\ UNCHANGED csession_info
    /\ UNCHANGED <<inputVars, mergeVars, adminVars, apiVars, segVars, pullVars, splitVars, orchVars, storeVars, cops, histVars>>

\* update_session_status: the write of the whole document
ClientStatusWrite ==
    /\ cpc = "status_write"
    /\ \E ok \in BOOLEAN :
         /\ doc' = IF ok THEN WithStatus(csession_info, cargs.status, -1, "none") ELSE doc
         /\ ack_status' = IF ok THEN cargs.status ELSE ack_status
    /\ cpc' = "idle"
    /\ cargs' = NoArgs
    /\ csession_info' = NoSession
    /\ UNCHANGED <<inputVars, mergeVars, adminVars, apiVars, segVars, pullVars, splitVars, orchVars, blobs, cops, yielded,
                   extract_failed, put_acked, put_failed, ack_appends>>

ClientCallUploadChunk ==
    /\ cpc = "idle"
    /\ cops < MaxClientOps
    /\ ack_status # "none"
    /\ \E i \in 0..(MaxChunks - 1) :
         cargs' = [status |-> "none", chunk_index |-> i]
    /\ cpc' = "chunk_put"
    /\ cops' = cops + 1
    /\ UNCHANGED <<inputVars, mergeVars, adminVars, apiVars, segVars, pullVars, splitVars, orchVars, storeVars, csession_info, histVars>>

\* upload_chunk: blob.upload_from_filename
ClientChunkPut ==
    /\ cpc = "chunk_put"
    /\ \E ok \in BOOLEAN :
         /\ blobs' = IF ok THEN blobs \cup {GcsPath(cargs.chunk_index)} ELSE blobs
         /\ put_acked' = IF ok THEN put_acked \cup {cargs.chunk_index} ELSE put_acked
         /\ put_failed' = IF ok THEN put_failed ELSE put_failed \cup {cargs.chunk_index}
         /\ IF AfterPut(ok) = "raise"
            THEN /\ cpc' = "idle"
                 /\ cargs' = NoArgs
            ELSE /\ cpc' = "chunk_read"
                 /\ UNCHANGED cargs
    /\ UNCHANGED <<inputVars, mergeVars, adminVars, apiVars, segVars, pullVars, splitVars, orchVars, doc, csession_info, cops,
                   yielded, extract_failed, ack_appends, ack_status>>

\* _update_session_chunk: get_session_info
ClientChunkRead ==
    /\ cpc = "chunk_read"
    /\ \E ok \in BOOLEAN :
         IF doc.exists /\ ok
         THEN /\ csession_info' = doc
              /\ cpc' = "chunk_write"
              /\ UNCHANGED cargs
         ELSE /\ cpc' = "idle"
              /\ cargs' = NoArgs
              /\ UNCHANGED csession_info
    /\ UNCHANGED <<inputVars, mergeVars, adminVars, apiVars, segVars, pullVars, splitVars, orchVars, storeVars, cops, histVars>>

\* _update_session_chunk: append and write the whole document
ClientChunkWrite ==
    /\ cpc = "chunk_write"
    /\ \E ok \in BOOLEAN :
         LET i == cargs.chunk_index
             chunk_info == ChunkRecord(i, StartTime(i, chunk_duration),
                                       StartTime(i + 1, chunk_duration))
         IN  /\ doc' = IF ok THEN AppendChunk(csession_info, chunk_info) ELSE doc
             /\ ack_appends' = IF ok THEN ack_appends \cup {i} ELSE ack_appends
    /\ cpc' = "idle"
    /\ cargs' = NoArgs
    /\ csession_info' = NoSession
    /\ UNCHANGED <<inputVars, mergeVars, adminVars, apiVars, segVars, pullVars, splitVars, orchVars, blobs, cops, yielded,
                   extract_failed, put_acked, put_failed, ack_status>>

ClientNext ==
    \/ ClientCallUpdateStatus
    \/ ClientStatusRead
    \/ ClientStatusWrite
    \/ ClientCallUploadChunk
    \/ ClientChunkPut
    \/ ClientChunkRead
    \/ ClientChunkWrite

Next == OrchestratorNext \/ ClientNext

\* ------------------------------------------------------------ merge_chunks
\* merge_chunks removing its files on the way to a return only
MergeEndOnReturnOnly(result, paths) ==
    /\ merge_result' = result
    /\ m_disk' = IF result.status = "ok"
                 THEN m_disk \ {paths[i].chunk_index : i \in 1..Len(paths)}
                 ELSE m_disk
    /\ mpc' = "done"

\* the finally clause of merge_chunks: every path in temp_chunk_paths is removed
MergeEnd(result, paths) ==
    /\ merge_result' = result
    /\ m_disk' = m_disk \ {paths[i].chunk_index : i \in 1..Len(paths)}
    /\ mpc' = "done"

\* merge_chunks up to the download loop, called for the session of a run
\* that has ended: get_session_info, the empty-list check, the sort
MergeStart ==
    /\ mpc = "idle"
    /\ pc = "done"
    /\ ack_status # "none"
    /\ \E ok \in BOOLEAN :
         IF ~(doc.exists /\ ok)
         THEN /\ MergeEnd(Raised(IF doc.exists THEN "StorageError" ELSE "NotFound"),
                          temp_chunk_paths)
              /\ UNCHANGED m_chunks
         ELSE IF doc.chunks = <<>>
         THEN /\ MergeEnd(Raised("ValueError"), temp_chunk_paths)
              /\ UNCHANGED m_chunks
         ELSE /\ m_chunks' = SortByIndex(doc.chunks)
              /\ mpc' = "download"
              /\ UNCHANGED <<m_disk, merge_result>>
    /\ UNCHANGED temp_chunk_paths
    /\ UNCHANGED <<inputVars, pullVars, splitVars, orchVars, storeVars,
                   clientVars, histVars, adminVars, apiVars, segVars>>

\* one iteration of the download loop: download_chunk(session_id,
\* chunk_info['chunk_index']) reads the document again, takes
\* session_info['chunks'][chunk_index] and downloads the blob at its gcs_path
\* to a local file named after chunk_index
MergeDownload ==
    /\ mpc = "download"
    /\ Len(temp_chunk_paths) < Len(m_chunks)
    /\ \E read_ok \in BOOLEAN, get_ok \in BOOLEAN :
         LET chunk_index == m_chunks[Len(temp_chunk_paths) + 1].chunk_index
         IN  IF ~(doc.exists /\ read_ok)
             THEN /\ MergeEnd(Raised(IF doc.exists THEN "StorageError" ELSE "NotFound"),
                              temp_chunk_paths)
                  /\ UNCHANGED temp_chunk_paths
             ELSE IF chunk_index >= Len(doc.chunks)
             THEN /\ MergeEnd(Raised("IndexError"), temp_chunk_paths)
                  /\ UNCHANGED temp_chunk_paths
             ELSE LET chunk_info == doc.chunks[chunk_index + 1]
                  IN  IF chunk_info.gcs_path \in blobs /\ get_ok
                      THEN /\ temp_chunk_paths' =
                                Append(temp_chunk_paths,
                                       [chunk_index |-> chunk_index,
                                        artifact |-> chunk_info.gcs_path,
                                        duration |-> chunk_info.duration])
                           /\ m_disk' = m_disk \cup {chunk_index}
                           /\ UNCHANGED <<mpc, merge_result>>
                      ELSE /\ MergeEnd(Raised("StorageError"), temp_chunk_paths)
                           /\ UNCHANGED temp_chunk_paths
    /\ UNCHANGED m_chunks
    /\ UNCHANGED <<inputVars, pullVars, splitVars, orchVars, storeVars,
                   clientVars, histVars, adminVars, apiVars, segVars>>

\* the ffmpeg concat of the downloaded files, the metadata of the output and
\* the result
MergeConcat ==
    /\ mpc = "download"
    /\ Len(temp_chunk_paths) = Len(m_chunks)
    /\ \E ok \in BOOLEAN :
         MergeEnd(IF ok THEN MergeResult(m_chunks, temp_chunk_paths)
                  ELSE Raised("ConcatError"),
                  temp_chunk_paths)
    /\ UNCHANGED <<m_chunks, temp_chunk_paths>>
    /\ UNCHANGED <<inputVars, pullVars, splitVars, orchVars, storeVars,
                   clientVars, histVars, adminVars, apiVars, segVars>>

MergeNext ==
    \/ MergeStart
    \/ MergeDownload
    \/ MergeConcat


\* the orchestrator and a second writer on the same session; the inputs are
\* one memory size and the durations that end half-way into a chunk
InitTwoWriters ==
    /\ Init
    /\ max_memory_mb = 8
    /\ source_duration \in
         {Ticks(k * MinChunkSeconds + 150) : k \in 0..(MaxChunks - 1)}

Spec == InitTwoWriters /\ [][Next]_vars

\* ------------------------------------------------------ maintenance calls
\* Calls of the store's other public methods on the session of a run that
\* has ended: update_session_status with an additional_info, delete_session,
\* list_session_chunks.
AdminCallUpdateStatus ==
    /\ apc = "idle"
    /\ aops < MaxAdminOps
    /\ pc = "done"
    /\ ack_status # "none"
    /\ \E st \in Statuses, extra \in ExtraInfos :
         aargs' = [status |-> st, extra |-> extra]
    /\ apc' = "status_read"
    /\ aops' = aops + 1
    /\ UNCHANGED <<a_info, a_listing, a_last, deletes_ok, listed>>
    /\ UNCHANGED <<inputVars, mergeVars, pullVars, splitVars, orchVars, storeVars,
                   clientVars, histVars, apiVars, segVars>>

\* update_session_status: get_session_info
AdminStatusRead ==
    /\ apc = "status_read"
    /\ \E ok \in BOOLEAN :
         IF doc.exists /\ ok
         THEN /\ a_info' = doc
              /\ apc' = "status_write"
              /\ UNCHANGED <<aargs, a_last>>
         ELSE /\ apc' = "idle"
              /\ aargs' = NoAdminArgs
              /\ a_last' = [op |-> "update_session_status", status |-> "raised"]
              /\ UNCHANGED a_info
    /\ UNCHANGED <<a_listing, aops, deletes_ok, listed>>
    /\ UNCHANGED <<inputVars, mergeVars, pullVars, splitVars, orchVars, storeVars,
                   clientVars, histVars, apiVars, segVars>>

\* update_session_status: status, additional_info, the write of the document
AdminStatusWrite ==
    /\ apc = "status_write"
    /\ \E ok \in BOOLEAN :
         /\ doc' = IF ok THEN WithStatusAndExtra(a_info, aargs.status, aargs.extra)
                   ELSE doc
         /\ ack_status' = IF ok THEN aargs.status ELSE ack_status
         /\ a_last' = [op |-> "update_session_status",
                       status |-> IF ok THEN "ok" ELSE "raised"]
    /\ apc' = "idle"
    /\ aargs' = NoAdminArgs
    /\ a_info' = NoSession
    /\ UNCHANGED <<a_listing, aops, deletes_ok, listed>>
    /\ UNCHANGED <<inputVars, mergeVars, pullVars, splitVars, orchVars, blobs,
                   clientVars, yielded, extract_failed, put_acked, put_failed,
                   ack_appends, apiVars, segVars>>

\* delete_session: bucket.list_blobs(prefix)
AdminDeleteList ==
    /\ apc = "idle"
    /\ aops < MaxAdminOps
    /\ pc = "done"
    /\ ack_status # "none"
    /\ aops' = aops + 1
    /\ \E ok \in BOOLEAN :
         IF ok
         THEN /\ a_listing' = ListBlobs(doc, blobs)
              /\ apc' = "delete_loop"
              /\ UNCHANGED a_last
         ELSE /\ a_last' = [op |-> "delete_session", status |-> "raised"]
              /\ UNCHANGED <<a_listing, apc>>
    /\ UNCHANGED <<aargs, a_info, deletes_ok, listed>>
    /\ UNCHANGED <<inputVars, mergeVars, pullVars, splitVars, orchVars, storeVars,
                   clientVars, histVars, apiVars, segVars>>

\* delete_session: one blob.delete() of the loop
AdminDeleteBlob ==
    /\ apc = "delete_loop"
    /\ a_listing # {}
    /\ \E ok \in BOOLEAN :
         LET blob == MinOfSet(a_listing)
             there == IF blob = SessionJson THEN doc.exists ELSE blob \in blobs
         IN  IF ok /\ there
             THEN /\ doc' = IF blob = SessionJson THEN NoSession ELSE doc
                  /\ blobs' = blobs \ {blob}
                  /\ a_listing' = a_listing \ {blob}
                  /\ UNCHANGED <<apc, a_last>>
             ELSE /\ a_last' = [op |-> "delete_session", status |-> "raised"]
                  /\ a_listing' = {}
                  /\ apc' = "idle"
                  /\ UNCHANGED <<doc, blobs>>
    /\ UNCHANGED <<aargs, a_info, aops, deletes_ok, listed>>
    /\ UNCHANGED <<inputVars, mergeVars, pullVars, splitVars, orchVars,
                   clientVars, histVars, apiVars, segVars>>

\* delete_session: the loop is over, the call returns
AdminDeleteDone ==
    /\ apc = "delete_loop"
    /\ a_listing = {}
    /\ a_last' = [op |-> "delete_session", status |-> "ok"]
    /\ deletes_ok' = deletes_ok + 1
    /\ apc' = "idle"
    /\ UNCHANGED <<aargs, a_info, a_listing, aops, listed>>
    /\ UNCHANGED <<inputVars, mergeVars, pullVars, splitVars, orchVars, storeVars,
                   clientVars, histVars, apiVars, segVars>>

\* list_session_chunks: get_session_info, return session_info.get('chunks', [])
ListSessionChunks ==
    /\ apc = "idle"
    /\ aops < MaxAdminOps
    /\ pc = "done"
    /\ ack_status # "none"
    /\ aops' = aops + 1
    /\ \E ok \in BOOLEAN :
         /\ listed' = IF doc.exists /\ ok
                      THEN [status |-> "ok", chunks |-> doc.chunks]
                      ELSE [status |-> "raised", chunks |-> <<>>]
         /\ a_last' = [op |-> "list_session_chunks",
                       status |-> IF doc.exists /\ ok THEN "ok" ELSE "raised"]
    /\ UNCHANGED <<apc, aargs, a_info, a_listing, deletes_ok>>
    /\ UNCHANGED <<inputVars, mergeVars, pullVars, splitVars, orchVars, storeVars,
                   clientVars, histVars, apiVars, segVars>>

AdminNext ==
    \/ AdminCallUpdateStatus
    \/ AdminStatusRead
    \/ AdminStatusWrite
    \/ AdminDeleteList
    \/ AdminDeleteBlob
    \/ AdminDeleteDone
    \/ ListSessionChunks

\* a run of the orchestrator followed by maintenance calls on its session
SpecAdmin == InitTwoWriters /\ [][OrchestratorNext \/ AdminNext]_vars

\* a run with the second writer, then list_session_chunks
SpecListTwoWriters == InitTwoWriters /\ [][Next \/ ListSessionChunks]_vars

\* ------------------------------------------------------- /process-audio
\* The handler of POST /process-audio, one thread per request, interleaved
\* at its reads and writes of the global processing_status.
Answer(r, code) ==
    /\ req_pc' = [req_pc EXCEPT ![r] = "done"]
    /\ req_resp' = [req_resp EXCEPT ![r] = code]

\* if processing_status["is_processing"]: return 409
RequestCheck(r) ==
    /\ req_pc[r] = "new"
    /\ IF processing_status.is_processing
       THEN Answer(r, 409)
       ELSE /\ req_pc' = [req_pc EXCEPT ![r] = "reset"]
            /\ UNCHANGED req_resp
    /\ UNCHANGED <<processing_status, status_owner>>
    /\ UNCHANGED <<inputVars, mergeVars, adminVars, pullVars, splitVars, orchVars,
                   storeVars, clientVars, histVars, segVars>>

\* processing_status = {"is_processing": True, ...}
RequestReset(r) ==
    /\ req_pc[r] = "reset"
    /\ processing_status' = FreshStatus
    /\ status_owner' = r
    /\ req_pc' = [req_pc EXCEPT ![r] = "auth"]
    /\ UNCHANGED req_resp
    /\ UNCHANGED <<inputVars, mergeVars, adminVars, pullVars, splitVars, orchVars,
                   storeVars, clientVars, histVars, segVars>>

\* verify_api_key
RequestAuth(r) ==
    /\ req_pc[r] = "auth"
    /\ \E authorized \in BOOLEAN :
         IF authorized
         THEN /\ req_pc' = [req_pc EXCEPT ![r] = "validate"]
              /\ UNCHANGED <<req_resp, processing_status>>
         ELSE /\ processing_status' = Rejected(processing_status, "Invalid API key")
              /\ Answer(r, 401)
    /\ UNCHANGED status_owner
    /\ UNCHANGED <<inputVars, mergeVars, adminVars, pullVars, splitVars, orchVars,
                   storeVars, clientVars, histVars, segVars>>

\* the checks of the uploaded file, then the first progress report
RequestValidate(r) ==
    /\ req_pc[r] = "validate"
    /\ \E verdict \in {"ok", "audioFile is required", "No file selected",
                       "File too large"} :
         IF verdict = "ok"
         THEN /\ processing_status' = [processing_status EXCEPT !.progress = 5]
              /\ req_pc' = [req_pc EXCEPT ![r] = "work"]
              /\ UNCHANGED req_resp
         ELSE /\ processing_status' = Rejected(processing_status, verdict)
              /\ Answer(r, IF verdict = "File too large" THEN 413 ELSE 400)
    /\ UNCHANGED status_owner
    /\ UNCHANGED <<inputVars, mergeVars, adminVars, pullVars, splitVars, orchVars,
                   storeVars, clientVars, histVars, segVars>>

\* init_services, saving the file, the processing: progress reports, and an
\* exception from any of it handled by the except clause
RequestWork(r) ==
    /\ req_pc[r] = "work"
    /\ \E raised \in BOOLEAN :
         IF raised
         THEN /\ processing_status' = Failed(processing_status, "Exception")
              /\ Answer(r, 500)
         ELSE /\ processing_status' = [processing_status EXCEPT !.progress = 20]
              /\ req_pc' = [req_pc EXCEPT ![r] = "finish"]
              /\ UNCHANGED req_resp
    /\ UNCHANGED status_owner
    /\ UNCHANGED <<inputVars, mergeVars, adminVars, pullVars, splitVars, orchVars,
                   storeVars, clientVars, histVars, segVars>>

\* the result is built, the status reset, the response returned
RequestFinish(r) ==
    /\ req_pc[r] = "finish"
    /\ processing_status' = Finished(processing_status)
    /\ Answer(r, 200)
    /\ UNCHANGED status_owner
    /\ UNCHANGED <<inputVars, mergeVars, adminVars, pullVars, splitVars, orchVars,
                   storeVars, clientVars, histVars, segVars>>

EndpointNext ==
    \E r \in Requests :
        \/ RequestCheck(r)
        \/ RequestReset(r)
        \/ RequestAuth(r)
        \/ RequestValidate(r)
        \/ RequestWork(r)
        \/ RequestFinish(r)

InitEndpoint ==
    /\ Init
    /\ max_memory_mb = 8
    /\ source_duration = Ticks(MinChunkSeconds)

\* concurrent requests to /process-audio
SpecEndpoint == InitEndpoint /\ [][EndpointNext]_vars

\* ------------------------------------------------- create_audio_segments
\* int(duration)
IntSeconds(d) == d \div TicksPerSecond

\* the dict appended for the segment that starts at start
Segment(start, len, d) ==
    LET end_time == Min(Ticks(start + len), d)
    IN  [start |-> Ticks(start), end |-> end_time, duration |-> end_time - Ticks(start)]

\* a call of create_audio_segments: get_audio_duration, segments = []
SegmentsCall ==
    /\ seg_pc = "idle"
    /\ \E d \in 1..MaxSegmentTicks, len \in 1..MaxSegmentSeconds :
         /\ seg_total' = d
         /\ seg_len' = len
    /\ seg_start' = 0
    /\ segments' = <<>>
    /\ seg_pc' = "loop"
    /\ UNCHANGED <<inputVars, mergeVars, adminVars, apiVars, pullVars, splitVars,
                   orchVars, storeVars, clientVars, histVars>>

\* one iteration of for start_time in range(0, int(duration), segment_duration)
SegmentsStep ==
    /\ seg_pc = "loop"
    /\ seg_start < IntSeconds(seg_total)
    /\ segments' = Append(segments, Segment(seg_start, seg_len, seg_total))
    /\ seg_start' = seg_start + seg_len
    /\ UNCHANGED <<seg_pc, seg_total, seg_len>>
    /\ UNCHANGED <<inputVars, mergeVars, adminVars, apiVars, pullVars, splitVars,
                   orchVars, storeVars, clientVars, histVars>>

\* the range is exhausted: return segments
SegmentsReturn ==
    /\ seg_pc = "loop"
    /\ seg_start >= IntSeconds(seg_total)
    /\ seg_pc' = "done"
    /\ UNCHANGED <<seg_total, seg_len, seg_start, segments>>
    /\ UNCHANGED <<inputVars, mergeVars, adminVars, apiVars, pullVars, splitVars,
                   orchVars, storeVars, clientVars, histVars>>

SegmentsNext ==
    \/ SegmentsCall
    \/ SegmentsStep
    \/ SegmentsReturn

InitSegments ==
    /\ Init
    /\ max_memory_mb = 8
    /\ source_duration = Ticks(MinChunkSeconds)

\* create_audio_segments over every duration and segment length of the bounds
SpecSegments == InitSegments /\ [][SegmentsNext]_vars

\* a run of the orchestrator followed by a merge of its session
SpecMerge == Init /\ [][OrchestratorNext \/ MergeNext]_vars

\* the same with the second writer
SpecMergeTwoWriters == InitTwoWriters /\ [][Next \/ MergeNext]_vars


\* ================================================================= claims
RecordIndices(d) == {d.chunks[i].chunk_index : i \in 1..Len(d.chunks)}

\* invariant 1 of the data model over a chunk list
IndexInvariant(chunks) ==
    \A i \in 1..Len(chunks) : chunks[i].chunk_index = i - 1

\* invariant 2 of the data model over a chunk list of a source of length d
Contiguous(chunks) ==
    \A i \in 1..(Len(chunks) - 1) : chunks[i].end_time = chunks[i + 1].start_time

RECURSIVE SumDuration(_)
SumDuration(chunks) ==
    IF chunks = <<>> THEN 0
    ELSE Head(chunks).duration + SumDuration(Tail(chunks))

Covers(chunks, d) ==
    /\ Len(chunks) > 0
    /\ chunks[1].start_time = 0
    /\ Contiguous(chunks)
    /\ chunks[Len(chunks)].end_time = d
    /\ SumDuration(chunks) = d

MinOf(S) == CHOOSE x \in S : \A y \in S : x <= y

\* C1: in every reachable state the persisted chunk list with N records has
\* chunks[i].index = i, its index set being exactly 0..N-1.
C1_PersistedIndexInvariant ==
    /\ IndexInvariant(doc.chunks)
    /\ RecordIndices(doc) = 0..(Len(doc.chunks) - 1)

\* C2: when the splitter is exhausted (here in the case most favourable to
\* the claim, every extraction having succeeded) the chunks it produced start
\* at 0, are contiguous, end at the source duration exactly and their
\* durations sum to the source duration.
C2_SplitCoversSource ==
    (pc = "completed_read" /\ extract_failed = {})
        => Covers(yielded, source_duration)

\* C3: once the session status is completed or failed, no step changes it.
C3_StatusMonotone ==
    [][doc.status \in {"completed", "failed"} => doc'.status = doc.status]_vars

\* C4: every ChunkRecord in the session document has an index whose artifact
\* put was acknowledged by the object store; a put that failed adds no record.
C4_RecordOnlyAfterPut ==
    \A i \in 1..Len(doc.chunks) : doc.chunks[i].chunk_index \in put_acked

\* a put of chunk i failed, was never repeated with success, the run went on
\* to its end and the document exists without a record of index i
C4_Witness ==
    /\ pc = "done"
    /\ doc.exists
    /\ \E i \in put_failed : i \notin put_acked /\ i \notin RecordIndices(doc)

\* C5: whenever the orchestrator is not inside upload_chunk, the stored
\* artifacts and the ChunkRecords are the same set of chunks: no artifact
\* without a record, no record without an artifact.
C5_UploadAllOrNothing ==
    pc \notin {"update_chunk_read", "update_chunk_write"}
        => blobs = {GcsPath(i) : i \in RecordIndices(doc)}

\* C6: under interleaved writers no acknowledged update is lost: every
\* acknowledged chunk append is in the document, and the document's status
\* is the one of the last acknowledged status write.
C6_NoLostUpdate ==
    /\ \A i \in ack_appends : i \in RecordIndices(doc)
    /\ doc.exists => doc.status = ack_status

\* C7: once extraction of chunk i has failed the splitter yields no chunk of
\* a greater index (it stops instead of skipping the chunk).
C7_ExtractionFailureStops ==
    \A k \in 1..Len(yielded) :
        \A i \in extract_failed : yielded[k].chunk_index < i

\* C8: when a run in which extraction of chunk i failed (and nothing else
\* went wrong) has ended, the session is failed and holds exactly the i
\* records of the chunks before it.
C8_PartialFailure ==
    (pc = "done" /\ extract_failed # {} /\ error = "none")
        => /\ doc.status = "failed"
           /\ Len(doc.chunks) = MinOf(extract_failed)
           /\ IndexInvariant(doc.chunks)

\* C9: a session is completed only if every planned chunk 0..N-1 has its
\* record, in index order; a session with a missing chunk is not completed.
C9_CompletedHasAllChunks ==
    doc.status = "completed"
        => /\ Len(doc.chunks) = num_chunks
           /\ IndexInvariant(doc.chunks)

\* C10: when a run with a session has ended and an extraction, processing
\* or upload error occurred in it, the run raised (it returned no result)
\* and the failed status it wrote carries the originating error.
C10_ErrorsReRaised ==
    (pc = "done" /\ ack_status # "none" /\ (extract_failed # {} \/ error # "none"))
        => /\ outcome = "raised"
           /\ ack_status = "failed" => (doc.status = "failed" /\ doc.error = error)


\* the with block of the orchestrator has been left
ScopeEnded ==
    pc \in {"completed_read", "completed_write", "failed_read", "failed_write", "done"}

\* C11: every temporary chunk file on disk is tracked in temp_files, and once
\* the splitter's scope has ended (exhaustion or exception) none exists.
C11_TempFilesRemoved ==
    /\ disk \subseteq Range(temp_files)
    /\ ScopeEnded => disk = {}

\* the scope ended by an exception after two chunks had been extracted
C11_Witness ==
    /\ pc = "done"
    /\ outcome = "raised"
    /\ Len(yielded) >= 2
    /\ disk = {}

\* C12: _extract_chunk is called at most once per chunk index, and the
\* number of chunks extracted never exceeds the number of elements the
\* consumer has asked for.
C12_PullBased ==
    /\ \A i, j \in 1..Len(extract_calls) :
         extract_calls[i] = extract_calls[j] => i = j
    /\ Cardinality(Range(extract_calls) \ extract_failed) <= pulls

\* the consumer has asked three times and three chunks have been extracted
C12_Witness ==
    /\ pulls = 3
    /\ Cardinality(Range(extract_calls) \ extract_failed) = 3


CeilDiv(a, b) == (a + b - 1) \div b

\* C13: when the splitter is exhausted and every extraction succeeded, it has
\* yielded exactly ceil(D / c) chunks.
C13_ChunkCount ==
    (pc = "completed_read" /\ extract_failed = {})
        => Len(yielded) = CeilDiv(source_duration, Ticks(chunk_duration))

\* C14: the planned chunk duration lies in [300, 1800] seconds, or is the
\* whole duration of a source shorter than 300 seconds; it is never 0.
C14_PlanInRange ==
    pc # "start"
        => /\ chunk_duration # 0
           /\ \/ chunk_duration \in MinChunkSeconds..MaxChunkSeconds
              \/ /\ source_duration < Ticks(MinChunkSeconds)
                 /\ Ticks(chunk_duration) = source_duration

\* the plan of the design: budget_bytes * 0.8 / 32000 seconds, at most 1800
\* and at least 300, in units of 1/320000 second (budget = mb * 2^20 bytes)
PlanByDesign(mb) ==
    Max(MinChunkSeconds * 320000, Min(mb * 1048576 * 8, MaxChunkSeconds * 320000))

\* C15: the planned chunk duration is the whole duration for a source
\* shorter than 300 seconds, and otherwise min(budget * 0.8 / 32000, 1800)
\* raised to 300 (here: up to the truncation to a whole second).
C15_PlanFormula ==
    (pc # "start" /\ ack_status # "none")
        => IF source_duration < Ticks(MinChunkSeconds)
           THEN Ticks(chunk_duration) = source_duration
           ELSE /\ chunk_duration * 320000 <= PlanByDesign(max_memory_mb)
                /\ PlanByDesign(max_memory_mb) < (chunk_duration + 1) * 320000


\* C16: merging a session whose chunk list, in index order, is not
\* contiguous (a chunk is missing between two others) fails, and no chunk is
\* downloaded for it.
C16_MergeFailsFast ==
    (mpc # "idle" /\ ~Contiguous(SortByIndex(doc.chunks)))
        => /\ temp_chunk_paths = <<>>
           /\ mpc = "done" => merge_result.status = "raised"

\* C17: for a session with one record per index, whatever order the records
\* were appended in, the artifacts merge downloads (and concatenates in
\* download order) are in strictly increasing chunk index order.
C17_DownloadsInIndexOrder ==
    (/\ m_chunks = SortByIndex(doc.chunks)
     /\ Cardinality(RecordIndices(doc)) = Len(doc.chunks))
        => \A i, j \in 1..Len(temp_chunk_paths) :
              i < j => temp_chunk_paths[i].artifact < temp_chunk_paths[j].artifact

\* C18: a successful merge result has the duration recorded in the session.
C18_MergedDurationChecked ==
    merge_result.status = "ok" => merge_result.duration = source_duration

\* C19: merging the completed session of a run gives the source's duration
\* and as many chunks as the split produced.
C19_RoundTrip ==
    (merge_result.status = "ok" /\ doc.status = "completed")
        => /\ merge_result.duration = source_duration
           /\ merge_result.total_chunks = Len(yielded)

\* C20: no chunk index has more than one ChunkRecord in the session, and an
\* index with a record has its artifact stored.
C20_UploadIdempotent ==
    /\ Cardinality(RecordIndices(doc)) = Len(doc.chunks)
    /\ \A i \in RecordIndices(doc) : GcsPath(i) \in blobs

\* C23: during orchestrated processing the local temporary file of a chunk
\* is gone once the chunk's upload has succeeded, so at most one extracted
\* chunk's temporary file exists at any time.
C23_OneTempFileAtATime ==
    /\ \A i \in disk : i \notin ack_appends
    /\ Cardinality(disk \ extract_failed) <= 1

\* C21: list_session_chunks returns the session's records sorted by
\* ascending chunk index, whatever order they were appended in.
C21_ListSorted ==
    listed.status = "ok"
        => \A i, j \in 1..Len(listed.chunks) :
              i < j => listed.chunks[i].chunk_index <= listed.chunks[j].chunk_index

\* C22: when a delete_session call has returned, the session document and
\* every chunk artifact of the session are gone; this also for a partially
\* uploaded session and for a session deleted before.
C22_DeleteRemovesAll ==
    (apc = "idle" /\ a_last = [op |-> "delete_session", status |-> "ok"])
        => /\ ~doc.exists
           /\ blobs = {}

C22_Witness ==
    /\ deletes_ok = 2
    /\ outcome = "raised"
    /\ put_acked # {}
    /\ Len(yielded) > Cardinality(ack_appends)
    /\ ~doc.exists
    /\ blobs = {}

\* C25: the write of update_session_status leaves the chunk list of the
\* session document as it was, for every additional_info.
C25_StatusWriteKeepsChunks ==
    [][(apc = "status_write" /\ apc' = "idle") => doc'.chunks = doc.chunks]_vars

C26_AppendOnlyWhileProcessing ==
    [][(doc.status \in {"completed", "failed"} /\ doc'.status = doc.status)
          => Len(doc'.chunks) <= Len(doc.chunks)]_vars

\* C27: the file download_chunk(session, i) fetches is the artifact of the
\* record whose chunk_index is i.
C27_DownloadByIndex ==
    \A k \in 1..Len(temp_chunk_paths) :
        temp_chunk_paths[k].artifact = GcsPath(temp_chunk_paths[k].chunk_index)

InFlight(r) == req_pc[r] \notin {"new", "done"}

\* C28: two requests to /process-audio are never both past the
\* is_processing check, and the progress state of a request in flight is
\* the one that request set up.
C28_SingleFlight ==
    /\ Cardinality({r \in Requests : InFlight(r)}) <= 1
    /\ \A r \in Requests :
         req_pc[r] \in {"auth", "validate", "work", "finish"} => status_owner = r

\* C29: when no request to /process-audio is in flight, is_processing is
\* false, whichever way the requests that set it have ended.
C29_FlagReleased ==
    (\A r \in Requests : ~InFlight(r)) => ~processing_status.is_processing

C29_Witness ==
    /\ \A r \in Requests : req_pc[r] = "done"
    /\ \E r \in Requests : req_resp[r] = 500
    /\ \E r \in Requests : req_resp[r] \in {400, 401, 413}
    /\ ~processing_status.is_processing

RECURSIVE SumSegments(_)
SumSegments(segs) ==
    IF segs = <<>> THEN 0
    ELSE Head(segs).duration + SumSegments(Tail(segs))

\* C30: the segments create_audio_segments returns are contiguous from 0,
\* the last one ends at the duration of the recording and their durations
\* sum to it; there is at least one segment.
C30_SegmentsCover ==
    seg_pc = "done"
        => /\ Len(segments) > 0
           /\ segments[1].start = 0
           /\ \A i \in 1..(Len(segments) - 1) : segments[i].end = segments[i + 1].start
           /\ segments[Len(segments)].end = seg_total
           /\ SumSegments(segments) = seg_total

====
